---- MODULE Spec2Model ----
(***************************************************************************)
(* Model of the sports ticker of src/code.py: the fetch pipeline            *)
(* (fetch_all_games, parse_game, convert_date_format), the two tick timers  *)
(* (adafruit_ticks arithmetic on a fixed-width counter), the rotation index *)
(* over the held game list, and the fault handlers of the main loop.        *)
(*                                                                          *)
(* Python values are modelled as follows.  An optional value (a dict key    *)
(* that may be absent, a function result that may be None) is a sequence of *)
(* length 0 or 1.  Python indices are 0-based and kept as in the source     *)
(* (game_index, league_idx); the element of a list xs at Python index i is  *)
(* xs[i + 1].                                                               *)
(***************************************************************************)
EXTENDS Integers, Sequences, FiniteSets, TLC

VARIABLES
    pc,             \* position of the program: see PcValues ("reset": the run
                    \* was ended by microcontroller.reset())
    games,          \* the list held by the main program (line 384/390/413)
    game_index,     \* rotation index (line 399)
    fetch_clock,    \* fetch timer mark (line 397)
    display_clock,  \* display timer mark (line 398)
    current_time,   \* the latest ticks_ms() reading (line 407)
    display_root,   \* what display.root_group shows
    resets,         \* number of microcontroller.reset() calls of this run
    last,           \* what the latest loop iteration did (observation)
    render_log,     \* game indices rendered since the list was installed
    call            \* a single call of one function, with its arguments and
                    \* its result (NoCall while the main program runs)

vars == <<pc, games, game_index, fetch_clock, display_clock, current_time,
          display_root, resets, last, render_log, call>>

-----------------------------------------------------------------------------
(* Bounds of the model *)

\* width of the tick counter in bits (adafruit_ticks uses 29)
TicksBits == 4
\* fetch_interval_ms and display_interval_ms, scaled down to the counter width
FetchIntervalTicks == 3
DisplayIntervalTicks == 2
\* the longest time (in ticks) one loop iteration may take
MaxStall == 4
\* the furthest a timer mark may fall behind the tick counter
MaxLag == 7
\* the most events one league's feed holds in a call of fetch_all_games
MaxEvents == 3

-----------------------------------------------------------------------------
(* Configuration, lines 35-47 *)

None == <<>>
Some(x) == <<x>>

timezone_info == <<-5, "EST">>
sport_leagues == <<"nfl", "mlb", "nhl", "nba">>
SPORT_URLS == [i \in 1..Len(sport_leagues) |-> <<"scoreboard", sport_leagues[i]>>]

\* str.upper() on the configured league names
upper(s) ==
    CASE s = "nfl" -> "NFL"
      [] s = "mlb" -> "MLB"
      [] s = "nhl" -> "NHL"
      [] s = "nba" -> "NBA"
      [] OTHER -> s

fetch_interval_ms == FetchIntervalTicks
display_interval_ms == DisplayIntervalTicks

-----------------------------------------------------------------------------
(* adafruit_ticks: a counter of TicksBits bits *)

TICKS_PERIOD == 2 ^ TicksBits
TICKS_MAX == TICKS_PERIOD - 1
TICKS_HALFPERIOD == TICKS_PERIOD \div 2
Ticks == 0..TICKS_MAX

\* ticks_add(ticks, delta) = (ticks + delta) % _TICKS_PERIOD
ticks_add(ticks, delta) == (ticks + delta) % TICKS_PERIOD

\* ticks_diff(t1, t2) = ((t1 - t2 + HALF) & MAX) - HALF; on a power of two
\* the mask is the remainder modulo TICKS_PERIOD
ticks_diff(ticks1, ticks2) ==
    (((ticks1 - ticks2) + TICKS_HALFPERIOD) % TICKS_PERIOD) - TICKS_HALFPERIOD

-----------------------------------------------------------------------------
(* convert_date_format, lines 119-144 *)

\* A date string is modelled by the values of the five slices the function
\* converts with int(): date_str[0:4], [5:7], [8:10], [11:13], [14:16], and
\* by the characters between them, date_str[4], [7], [10], [13], which the
\* function does not read.  A slice that int() rejects (empty, or not a
\* number) is NaN.
NaN == -1
IsoSeparators == <<"-", "-", "T", ":">>
DateStr(y, mo, d, h, mi) ==
    [year |-> y, month |-> mo, day |-> d, hour |-> h, minute |-> mi,
     seps |-> IsoSeparators]
\* the same digits with other characters between them
WithSeparators(date_str, seps) == [date_str EXCEPT !.seps = seps]
\* the empty string
EmptyDateStr == WithSeparators(DateStr(NaN, NaN, NaN, NaN, NaN), <<"", "", "", "">>)

IsLeap(y) == (y % 4 = 0 /\ y % 100 # 0) \/ y % 400 = 0
DaysInMonth(y, m) ==
    CASE m \in {1, 3, 5, 7, 8, 10, 12} -> 31
      [] m \in {4, 6, 9, 11} -> 30
      [] OTHER -> IF IsLeap(y) THEN 29 ELSE 28

\* datetime(year, month, day, hour, minute) raises ValueError outside these ranges
ValidDateTime(y, mo, d, h, mi) ==
    /\ y \in 1..9999
    /\ mo \in 1..12
    /\ d >= 1 /\ d <= DaysInMonth(y, mo)
    /\ h \in 0..23
    /\ mi \in 0..59

\* the calendar day before / after (y, mo, d)
PrevDay(dt) ==
    IF dt.day > 1 THEN [dt EXCEPT !.day = dt.day - 1]
    ELSE IF dt.month > 1
         THEN [dt EXCEPT !.month = dt.month - 1,
                         !.day = DaysInMonth(dt.year, dt.month - 1)]
         ELSE [dt EXCEPT !.year = dt.year - 1, !.month = 12, !.day = 31]
NextDay(dt) ==
    IF dt.day < DaysInMonth(dt.year, dt.month) THEN [dt EXCEPT !.day = dt.day + 1]
    ELSE IF dt.month < 12
         THEN [dt EXCEPT !.month = dt.month + 1, !.day = 1]
         ELSE [dt EXCEPT !.year = dt.year + 1, !.month = 1, !.day = 1]

RECURSIVE ShiftDays(_, _)
ShiftDays(dt, n) ==
    IF n = 0 THEN dt
    ELSE IF n > 0 THEN ShiftDays(NextDay(dt), n - 1)
    ELSE ShiftDays(PrevDay(dt), n + 1)

\* dt + timedelta(hours=h)
AddHours(dt, h) ==
    LET total == dt.hour + h
        days  == IF total >= 0 THEN total \div 24 ELSE -((23 - total) \div 24)
    IN  [ShiftDays(dt, days) EXCEPT !.hour = total - 24 * days]

\* f"{minute:02d}"
Pad2(n) == IF n < 10 THEN "0" \o ToString(n) ELSE ToString(n)

\* a mutation of Hour12: midnight is not replaced by 12
Hour12Plain(hour) == IF hour <= 12 THEN hour ELSE hour - 12

\* lines 137-139
Hour12(hour) ==
    LET hour_12 == IF hour <= 12 THEN hour ELSE hour - 12
    IN  IF hour_12 = 0 THEN 12 ELSE hour_12

convert_date_format(date_str, tz_info) ==
    IF \/ NaN \in {date_str.year, date_str.month, date_str.day,
                   date_str.hour, date_str.minute}
       \/ ~ValidDateTime(date_str.year, date_str.month, date_str.day,
                         date_str.hour, date_str.minute)
    THEN "TBD"
    ELSE LET dt_adjusted == AddHours([year |-> date_str.year, month |-> date_str.month,
                                      day |-> date_str.day, hour |-> date_str.hour,
                                      minute |-> date_str.minute], tz_info[1])
         IN  IF dt_adjusted.year \notin 1..9999
             THEN "TBD"     \* OverflowError of the addition, caught at line 142
             ELSE LET am_pm == IF dt_adjusted.hour < 12 THEN "AM" ELSE "PM"
                  IN  ToString(dt_adjusted.month) \o "/" \o ToString(dt_adjusted.day)
                      \o " " \o ToString(Hour12(dt_adjusted.hour)) \o ":"
                      \o Pad2(dt_adjusted.minute) \o am_pm

-----------------------------------------------------------------------------
(* Upstream events and parse_game, lines 192-243 *)

\* One competitor of an event: competitors[i]["team"]["abbreviation"] (absent:
\* None) and competitors[i].get("score", "0").
Competitor(abbr, score) == [abbreviation |-> abbr, score |-> score]

\* One raw event of a feed.  competitors is None when event["competitions"][0]
\* ["competitors"] cannot be read; status is None when event["status"]["type"]
\* cannot be read, else the pair of the optional "name" and "shortDetail";
\* date is the optional "date"; alloc_fails says that an allocation made while
\* the event is normalized raises MemoryError.
Event(competitors, status, date, alloc_fails) ==
    [competitors |-> competitors, status |-> status, date |-> date,
     alloc_fails |-> alloc_fails]
StatusType(name, shortDetail) == [name |-> name, shortDetail |-> shortDetail]

\* dict.get(key, default)
Get(opt, default) == IF opt = None THEN default ELSE opt[1]

\* a mutation of DisplayStatus: a non-empty detail text is shown whatever the
\* status code is
DisplayStatusDetailFirst(status_name, status_detail, game_date) ==
    IF status_detail # "" THEN status_detail
    ELSE CASE status_name = "STATUS_FINAL" -> "FINAL"
           [] status_name = "STATUS_SCHEDULED" -> convert_date_format(game_date, timezone_info)
           [] status_name = "STATUS_POSTPONED" -> "POSTPONED"
           [] status_name = "STATUS_CANCELED" -> "CANCELED"
           [] OTHER -> "SCHEDULED"

\* lines 216-227
DisplayStatus(status_name, status_detail, game_date) ==
    CASE status_name = "STATUS_FINAL" -> "FINAL"
      [] status_name = "STATUS_IN_PROGRESS" -> status_detail
      [] status_name = "STATUS_SCHEDULED" -> convert_date_format(game_date, timezone_info)
      [] status_name = "STATUS_POSTPONED" -> "POSTPONED"
      [] status_name = "STATUS_CANCELED" -> "CANCELED"
      [] OTHER -> IF status_detail # "" THEN status_detail ELSE "SCHEDULED"

\* parse_game(event, league_idx): Some(game), or None (line 199, line 243)
parse_game(event, league_idx) ==
    IF event.alloc_fails THEN None                      \* MemoryError, caught at 241
    ELSE IF event.competitors = None THEN None          \* KeyError/IndexError at 195-196
    ELSE LET competitors == event.competitors[1] IN
    IF Len(competitors) # 2 THEN None                   \* line 198
    ELSE IF \E i \in 1..2 : competitors[i].abbreviation = None THEN None  \* KeyError at 202-203
    ELSE IF event.status = None THEN None               \* KeyError at 208
    ELSE LET status_type   == event.status[1]
             status_name   == Get(status_type.name, "STATUS_SCHEDULED")
             status_detail == Get(status_type.shortDetail, "")
             game_date     == Get(event.date, EmptyDateStr)
         IN  Some([league       |-> upper(sport_leagues[league_idx + 1]),
                   league_idx   |-> league_idx,
                   home_team    |-> competitors[1].abbreviation[1],
                   away_team    |-> competitors[2].abbreviation[1],
                   home_score   |-> Get(competitors[1].score, "0"),
                   away_score   |-> Get(competitors[2].score, "0"),
                   status       |-> DisplayStatus(status_name, status_detail, game_date),
                   is_final     |-> status_name = "STATUS_FINAL",
                   is_live      |-> status_name = "STATUS_IN_PROGRESS",
                   is_scheduled |-> status_name = "STATUS_SCHEDULED"])

-----------------------------------------------------------------------------
(* fetch_all_games, lines 155-189 *)

\* What one league's request gives: outcome "ok" with the events of the parsed
\* document, or the exception raised by requests.get / resp.json / data.get
\* ("request_error", "parse_error", "memory_error").
Response(outcome, events) == [outcome |-> outcome, events |-> events]

\* a mutation of LeagueGames: the first event that parse_game rejects ends
\* the league
RECURSIVE LeagueGamesUntilRejected(_, _)
LeagueGamesUntilRejected(events, league_idx) ==
    IF events = <<>> THEN <<>>
    ELSE LET game == parse_game(Head(events), league_idx)
         IN  IF game # None
             THEN <<game[1]>> \o LeagueGamesUntilRejected(Tail(events), league_idx)
             ELSE <<>>

\* lines 172-179: the games of the events of one league, in feed order
RECURSIVE LeagueGames(_, _)
LeagueGames(events, league_idx) ==
    IF events = <<>> THEN <<>>
    ELSE LET game == parse_game(Head(events), league_idx)
         IN  (IF game # None THEN <<game[1]>> ELSE <<>>)
             \o LeagueGames(Tail(events), league_idx)

\* TRUE when a MemoryError is raised while this league is processed
LeagueMemoryError(resp) ==
    \/ resp.outcome = "memory_error"
    \/ resp.outcome = "ok" /\ \E i \in 1..Len(resp.events) : resp.events[i].alloc_fails

\* a mutation of CatchesException: the handler lets MemoryError through
CatchesAllButMemoryError(exc) == exc # "memory_error"

\* line 181, `except Exception`: the exceptions a league's request or parse
\* raises (OSError/RuntimeError, ValueError, MemoryError) are all subclasses
\* of Exception
CatchesException(exc) == exc \in {"request_error", "parse_error", "memory_error"}

\* a mutation of AfterFailure: the loop over the leagues is left
AbortAfterFailure(league_idx) == Len(SPORT_URLS)

\* line 183, `continue`: the Python index of the league fetched after the
\* league at league_idx has failed
AfterFailure(league_idx) == league_idx + 1

\* lines 159-185 for the leagues from Python index league_idx on.  feed[i] is
\* the response the i-th URL gives during this run.  log is the sequence of
\* the calls made: <<"get", league>>, <<"error", league>>, <<"gc", league>>.
\* raised is None, or the exception that leaves the function.
RECURSIVE FetchFrom(_, _, _, _)
FetchFrom(feed, league_idx, all_games, log) ==
    IF league_idx >= Len(SPORT_URLS)
    THEN [all_games |-> all_games, log |-> log, raised |-> None]
    ELSE LET resp   == feed[league_idx + 1]
             league == sport_leagues[league_idx + 1]
         IN  IF resp.outcome = "ok"
             THEN FetchFrom(feed, league_idx + 1,
                            all_games \o LeagueGames(resp.events, league_idx),
                            log \o << <<"get", league>>, <<"gc", league>> >>)
             ELSE IF CatchesException(resp.outcome)
             THEN \* except Exception (line 181): continue, skipping line 185
                  FetchFrom(feed, AfterFailure(league_idx), all_games,
                            log \o << <<"get", league>>, <<"error", league>> >>)
             ELSE [all_games |-> all_games, log |-> Append(log, <<"get", league>>),
                   raised |-> Some(resp.outcome)]

fetch_all_games(feed) ==
    LET run == FetchFrom(feed, 0, <<>>, <<>>)
    IN  [all_games    |-> run.all_games,
         log          |-> run.log,
         raised       |-> run.raised,
         memory_error |-> \E i \in 1..Len(feed) : LeagueMemoryError(feed[i])]

-----------------------------------------------------------------------------
(* The environment of one run of the main program *)

TeamsEvent(home, away, status_name, detail) ==
    Event(Some(<<Competitor(Some(home), Some("3")), Competitor(Some(away), None)>>),
          Some(StatusType(Some(status_name), Some(detail))),
          Some(DateStr(2024, 1, 15, 0, 30)), FALSE)

FinalEvent == TeamsEvent("HOM", "AWY", "STATUS_FINAL", "Final")
AllocFailEvent == [FinalEvent EXCEPT !.alloc_fails = TRUE]

\* what a league that contributes no game may give
FailedResponses ==
    { Response("request_error", <<>>),
      Response("memory_error", <<>>),
      Response("ok", <<AllocFailEvent>>) }

\* a game that has not started yet
ScheduledEvent == TeamsEvent("BOS", "NYY", "STATUS_SCHEDULED", "1/15 - 7:30 PM EST")

\* an event whose home team's abbreviation is the empty string
EmptyAbbreviationEvent == TeamsEvent("", "AWY", "STATUS_FINAL", "Final")

\* a feed in which only the second league answers, with the events given
SecondLeagueOnly(events) ==
    [i \in 1..Len(SPORT_URLS) |->
        IF i = 2 THEN Response("ok", events) ELSE Response("request_error", <<>>)]

\* The feeds of the runs of the main program: the first k leagues give one
\* valid event each, and every other league gives the same failed response;
\* or only the second league answers, with one event.
LoopFeeds ==
    { [i \in 1..Len(SPORT_URLS) |-> IF i <= k THEN Response("ok", <<FinalEvent>>) ELSE failed] :
        k \in 0..Len(SPORT_URLS), failed \in FailedResponses }
    \cup { SecondLeagueOnly(<<ScheduledEvent>>), SecondLeagueOnly(<<EmptyAbbreviationEvent>>) }

-----------------------------------------------------------------------------
(* Main program, lines 374-451 *)

PcValues == {"initial_fetch", "retry_fetch", "init_timers", "loop", "display", "reset"}

\* the positions of the main loop (lines 405-451)
InMainLoop == pc \in {"loop", "display"}

Screen(kind, game) == [kind |-> kind, game |-> game]

\* a mutation of show_no_games: the screen is left as it is
show_nothing == display_root

\* lines 354-367: what show_no_games() puts on the screen
show_no_games == Screen("no_games", None)

\* What the latest iteration did.  fetch is "none" (the fetch timer did not
\* fire), "installed" (the run fetched a non-empty list), "failed" (every
\* league's request raised) or "empty" (no game, though a league answered);
\* memory_error says that a MemoryError was raised inside fetch_all_games;
\* old_games and old_index are the list and index held when the fetch timer
\* fired; display is "none", "rendered", "blank" (the display timer fired
\* with no game to select), "memory_error" or "error" (build_game_display
\* raised).
Step(fetch, memory_error, old_games, old_index, display) ==
    [fetch |-> fetch, memory_error |-> memory_error, old_games |-> old_games,
     old_index |-> old_index, display |-> display]
NoStep == Step("none", FALSE, <<>>, 0, "none")

\* how a run of fetch_all_games ended, for the record of the iteration
RunResult(feed, run) ==
    IF run.all_games # <<>> THEN "installed"
    ELSE IF \A i \in 1..Len(feed) : feed[i].outcome # "ok" THEN "failed"
    ELSE "empty"

\* the runs of fetch_all_games on the feeds of the main program
LoopRuns ==
    { LET run == fetch_all_games(feed)
      IN  [all_games |-> run.all_games, memory_error |-> run.memory_error,
           result |-> RunResult(feed, run)] : feed \in LoopFeeds }

\* a mutation of FetchDue: the two counter values are subtracted directly
FetchDuePlain(now, clock) == now - clock >= fetch_interval_ms

\* lines 410 and 423: the elapsed tests
FetchDue(now, clock) == ticks_diff(now, clock) >= fetch_interval_ms
DisplayDue(now, clock) == ticks_diff(now, clock) >= display_interval_ms

\* a mutation of AdvanceClock: the timer is restarted from the current reading
AdvanceClockFromNow(clock, now, interval) == ticks_add(now, interval)

\* lines 414 and 436: the mark of a timer that fired at the reading now
AdvanceClock(clock, now, interval) == ticks_add(clock, interval)

\* a mutation of ClocksAfterFetch: a refresh also restarts the display timer
ClocksAfterFetchResync(fclock, dclock, now) ==
    [fetch_clock |-> AdvanceClock(fclock, now, fetch_interval_ms), display_clock |-> now]

\* lines 411-420: the two timer marks after the fetch timer fired
ClocksAfterFetch(fclock, dclock, now) ==
    [fetch_clock |-> AdvanceClock(fclock, now, fetch_interval_ms), display_clock |-> dclock]

\* lines 424-436: the two timer marks after the display timer fired
ClocksAfterDisplay(fclock, dclock, now) ==
    [fetch_clock |-> fclock, display_clock |-> AdvanceClock(dclock, now, display_interval_ms)]

\* a mutation of IndexAfterRefresh: the index is kept when the new list has
\* an element at it
IndexKeptInRange(old_index, fetched) == IF old_index < Len(fetched) THEN old_index ELSE 0

\* a mutation of IndexAfterRefresh: the index is kept
IndexKept(old_index, fetched) == old_index

\* line 415: the index after a refresh that fetched the list `fetched`
IndexAfterRefresh(old_index, fetched) == 0

\* line 413: the list held after a refresh that fetched the list `fetched`
GamesAfterRefresh(old_games, fetched) == fetched

\* a mutation of NextIndex: no wraparound
NextIndexNoWrap(index, n) == index + 1

\* line 434
NextIndex(index, n) == (index + 1) % n

\* a mutation of SelectGame: the index is advanced before the selection
SelectGameAdvancing(list, index) ==
    IF list # <<>>
    THEN [game |-> Some(list[NextIndex(index, Len(list)) + 1]),
          index |-> NextIndex(index, Len(list))]
    ELSE [game |-> None, index |-> index]

\* a mutation of SelectGame: the index is advanced on an empty list too
SelectGameCounting(list, index) ==
    IF list # <<>>
    THEN [game |-> Some(list[index + 1]), index |-> NextIndex(index, Len(list))]
    ELSE [game |-> None, index |-> index + 1]

\* lines 424-434: the game selected by a display firing (None when the list
\* is empty) and the index once it has been rendered
SelectGame(list, index) ==
    IF list # <<>>
    THEN [game |-> Some(list[index + 1]), index |-> NextIndex(index, Len(list))]
    ELSE [game |-> None, index |-> index]

\* the last n elements of a sequence
LastN(seq, n) == IF Len(seq) <= n THEN seq ELSE SubSeq(seq, Len(seq) - n + 1, Len(seq))

\* the main program at line 374, before anything is fetched
ProgramStart ==
    /\ pc = "initial_fetch"
    /\ games = <<>>
    /\ game_index = 0
    /\ fetch_clock = 0
    /\ display_clock = 0
    /\ current_time = 0
    /\ display_root = Screen("startup", None)       \* show_startup(), line 380
    /\ resets = 0
    /\ last = NoStep
    /\ render_log = <<>>

\* no single call is under study while the main program runs
NoCall == [fn |-> "none"]

Init ==
    /\ ProgramStart
    /\ call = NoCall

\* lines 384-388
InitialFetch ==
    /\ pc = "initial_fetch"
    /\ \E run \in LoopRuns :
         /\ games' = run.all_games
         /\ last' = Step(run.result, run.memory_error, <<>>, 0, "none")
         /\ IF games' = <<>>
            THEN /\ display_root' = show_no_games             \* line 388
                 /\ pc' = "retry_fetch"
            ELSE /\ display_root' = display_root
                 /\ pc' = "init_timers"
    /\ UNCHANGED <<game_index, fetch_clock, display_clock, current_time, resets,
                   render_log, call>>

\* lines 389-390
RetryFetch ==
    /\ pc = "retry_fetch"
    /\ \E run \in LoopRuns :
         /\ games' = run.all_games
         /\ last' = Step(run.result, run.memory_error, <<>>, 0, "none")
    /\ pc' = "init_timers"
    /\ UNCHANGED <<game_index, fetch_clock, display_clock, current_time, resets,
                   display_root, render_log, call>>

\* lines 392-402: two successive ticks_ms() readings start the timers
InitTimers ==
    /\ pc = "init_timers"
    /\ \E t \in Ticks, d \in 0..1 :
         /\ fetch_clock' = t
         /\ display_clock' = ticks_add(t, d)
         /\ current_time' = ticks_add(t, d)
    /\ game_index' = 0
    /\ last' = NoStep
    /\ pc' = "loop"
    /\ UNCHANGED <<games, display_root, resets, render_log, call>>

\* The readings the tick counter may give at line 407: the counter has
\* advanced by at most MaxStall since the previous reading, and neither timer
\* mark is more than MaxLag behind it.
Readings ==
    { now \in { ticks_add(current_time, delta) : delta \in 0..MaxStall } :
        /\ (now - fetch_clock) % TICKS_PERIOD <= MaxLag
        /\ (now - display_clock) % TICKS_PERIOD <= MaxLag }

\* lines 407-420
FetchBranch ==
    /\ pc = "loop"
    /\ \E now \in Readings :
         /\ current_time' = now
         /\ IF FetchDue(now, fetch_clock)
            THEN \E run \in LoopRuns :
                   LET clocks == ClocksAfterFetch(fetch_clock, display_clock, now) IN
                   /\ games' = GamesAfterRefresh(games, run.all_games)
                   /\ fetch_clock' = clocks.fetch_clock
                   /\ display_clock' = clocks.display_clock
                   /\ game_index' = IndexAfterRefresh(game_index, run.all_games)
                   /\ render_log' = <<>>
                   /\ last' = Step(run.result, run.memory_error, games, game_index, "none")
                   /\ IF games' = <<>>
                      THEN /\ display_root' = show_no_games             \* line 418
                           /\ pc' = "loop"                              \* line 420
                      ELSE /\ display_root' = display_root
                           /\ pc' = "display"
            ELSE /\ last' = NoStep
                 /\ pc' = "display"
                 /\ UNCHANGED <<games, fetch_clock, display_clock, game_index,
                                display_root, render_log>>
    /\ UNCHANGED <<resets, call>>

\* lines 423-439, when build_game_display returns
DisplayBranch ==
    /\ pc = "display"
    /\ IF DisplayDue(current_time, display_clock)
       THEN LET sel    == SelectGame(games, game_index)
                clocks == ClocksAfterDisplay(fetch_clock, display_clock, current_time)
            IN
            /\ IF sel.game # None
               THEN /\ display_root' = Screen("game", sel.game)     \* line 431
                    /\ render_log' = LastN(Append(render_log, game_index),
                                           Len(games) + 1)
                    /\ last' = [last EXCEPT !.display = "rendered"]
               ELSE /\ last' = [last EXCEPT !.display = "blank"]
                    /\ UNCHANGED <<display_root, render_log>>
            /\ game_index' = sel.index
            /\ fetch_clock' = clocks.fetch_clock
            /\ display_clock' = clocks.display_clock
       ELSE UNCHANGED <<display_root, render_log, game_index, fetch_clock,
                        display_clock, last>>
    /\ pc' = "loop"
    /\ UNCHANGED <<games, current_time, resets, call>>

\* TRUE when the display branch calls build_game_display (lines 423-430)
Rendering ==
    /\ pc = "display"
    /\ DisplayDue(current_time, display_clock)
    /\ SelectGame(games, game_index).game # None

\* lines 442-445: what the handler of MemoryError does, in order
MemoryErrorRecovery == <<"print", "gc.collect", "sleep 5", "microcontroller.reset">>

\* lines 448-451: what the handler of any other exception does, in order
GenericRecovery == <<"print", "sleep 10", "gc.collect", "sleep 5">>

\* where the program is after a handler has run: the run has ended if the
\* handler's last call is microcontroller.reset(), else the while loop
\* starts its next iteration
AfterRecovery(recovery) ==
    IF recovery[Len(recovery)] = "microcontroller.reset" THEN "reset" ELSE "loop"

\* lines 423-430 and 441-445: build_game_display raises MemoryError; the
\* handler runs gc.collect(), time.sleep(5), microcontroller.reset().  The
\* reset ends the run and clears the program's memory.
DisplayMemoryError ==
    /\ Rendering
    /\ resets' = resets + 1
    /\ last' = [last EXCEPT !.display = "memory_error"]
    /\ pc' = AfterRecovery(MemoryErrorRecovery)
    /\ games' = <<>>
    /\ game_index' = 0
    /\ fetch_clock' = 0
    /\ display_clock' = 0
    /\ current_time' = 0
    /\ display_root' = Screen("startup", None)
    /\ render_log' = <<>>
    /\ UNCHANGED call

\* lines 423-430 and 447-451: build_game_display raises another exception;
\* the handler runs print, time.sleep(10), gc.collect(), time.sleep(5), and
\* the while loop starts its next iteration
DisplayError ==
    /\ Rendering
    /\ last' = [last EXCEPT !.display = "error"]
    /\ pc' = AfterRecovery(GenericRecovery)
    /\ UNCHANGED <<games, game_index, fetch_clock, display_clock, current_time,
                   display_root, resets, render_log, call>>

Next ==
    \/ InitialFetch
    \/ RetryFetch
    \/ InitTimers
    \/ FetchBranch
    \/ DisplayBranch
    \/ DisplayMemoryError
    \/ DisplayError

Spec == Init /\ [][Next]_vars

\* an iteration in which the tick counter reads a new value
Tick == FetchBranch /\ current_time' # current_time

\* The program is sequential and no statement of it blocks for ever, so
\* each step that is possible is eventually taken; every iteration sleeps
\* (lines 419, 439, 449-451), so the readings of the counter do not stay the
\* same for ever.
Fairness ==
    /\ WF_vars(InitialFetch)
    /\ WF_vars(RetryFetch)
    /\ WF_vars(InitTimers)
    /\ WF_vars(FetchBranch)
    /\ WF_vars(DisplayBranch)
    /\ SF_vars(Tick)

\* the runs of the main program in which no fetch finds more than one game
AtMostOneGame == Len(games) <= 1

NextLive ==
    \/ InitialFetch /\ AtMostOneGame'
    \/ RetryFetch /\ AtMostOneGame'
    \/ InitTimers
    \/ FetchBranch /\ AtMostOneGame'
    \/ DisplayBranch
    \/ DisplayMemoryError
    \/ DisplayError

SpecLive == Init /\ [][NextLive]_vars /\ Fairness

-----------------------------------------------------------------------------
(* One call of fetch_all_games (lines 155-189) on every feed of FetchFeeds *)

\* events that parse_game rejects
NoCompetitorsEvent == [FinalEvent EXCEPT !.competitors = None]
OneCompetitorEvent ==
    [FinalEvent EXCEPT !.competitors = Some(<<Competitor(Some("HOM"), Some("3"))>>)]
ThreeCompetitorsEvent ==
    [FinalEvent EXCEPT !.competitors =
        Some(<<Competitor(Some("HOM"), Some("3")), Competitor(Some("AWY"), None),
               Competitor(Some("XTR"), None)>>)]
NoAbbreviationEvent ==
    [FinalEvent EXCEPT !.competitors =
        Some(<<Competitor(Some("HOM"), Some("3")), Competitor(None, None)>>)]
NoStatusEvent == [FinalEvent EXCEPT !.status = None]

EventKinds ==
    { FinalEvent, ScheduledEvent, NoCompetitorsEvent, OneCompetitorEvent,
      ThreeCompetitorsEvent, NoAbbreviationEvent, NoStatusEvent, AllocFailEvent }

\* the event lists of at most MaxEvents events
EventLists == UNION { [1..n -> EventKinds] : n \in 0..MaxEvents }

\* what one league's request may give
LeagueResponses ==
    { Response("request_error", <<>>), Response("parse_error", <<>>),
      Response("memory_error", <<>>), Response("ok", <<>>),
      Response("ok", <<FinalEvent>>), Response("ok", <<NoStatusEvent, ScheduledEvent>>) }

\* The feeds of the call: every league gives any of LeagueResponses; or the
\* second league gives any event list, after a league that gave a game and
\* before a league that fails and one that gives a game.
FetchFeeds ==
    [1..Len(SPORT_URLS) -> LeagueResponses]
    \cup { [i \in 1..Len(SPORT_URLS) |->
               CASE i = 2 -> Response("ok", events)
                 [] i = 3 -> Response("request_error", <<>>)
                 [] OTHER -> Response("ok", <<FinalEvent>>)] : events \in EventLists }

InitFetch ==
    /\ ProgramStart
    /\ \E feed \in FetchFeeds :
         call = [fn |-> "fetch_all_games", feed |-> feed, state |-> "called",
                 all_games |-> <<>>, log |-> <<>>, raised |-> None]

\* the call runs to its end: it returns all_games (line 189) or an exception
\* leaves it
CallFetchAllGames ==
    /\ call.fn = "fetch_all_games"
    /\ call.state = "called"
    /\ LET run == fetch_all_games(call.feed)
       IN  call' = [call EXCEPT !.state = IF run.raised = None THEN "returned" ELSE "raised",
                                !.all_games = run.all_games,
                                !.log = run.log,
                                !.raised = run.raised]
    /\ UNCHANGED <<pc, games, game_index, fetch_clock, display_clock, current_time,
                   display_root, resets, last, render_log>>

NextFetch == CallFetchAllGames

SpecFetch == InitFetch /\ [][NextFetch]_vars

-----------------------------------------------------------------------------
(* One call of parse_game (lines 192-243) on every event of ParseEvents *)

\* the values of event["status"]["type"]["name"] and ["shortDetail"] and of
\* event["date"] in the events of the call (None: the key is absent)
StatusNames ==
    { None, Some("STATUS_FINAL"), Some("STATUS_IN_PROGRESS"), Some("STATUS_SCHEDULED"),
      Some("STATUS_POSTPONED"), Some("STATUS_CANCELED"), Some("STATUS_HALFTIME"),
      Some("STATUS_DELAYED") }
StatusDetails == { None, Some(""), Some("Q3 5:42"), Some("Final/OT"), Some("Halftime") }
EventDates ==
    { None, Some(DateStr(2024, 1, 15, 0, 30)), Some(DateStr(2024, 6, 1, 17, 0)),
      Some(DateStr(2024, 13, 1, 17, 0)), Some(EmptyDateStr) }

ParseEvents ==
    { Event(FinalEvent.competitors, Some(StatusType(name, detail)), date, FALSE) :
        name \in StatusNames, detail \in StatusDetails, date \in EventDates }

InitParse ==
    /\ ProgramStart
    /\ \E event \in ParseEvents, league_idx \in 0..(Len(sport_leagues) - 1) :
         call = [fn |-> "parse_game", event |-> event, league_idx |-> league_idx,
                 state |-> "called", result |-> None]

CallParseGame ==
    /\ call.fn = "parse_game"
    /\ call.state = "called"
    /\ call' = [call EXCEPT !.state = "returned",
                            !.result = parse_game(call.event, call.league_idx)]
    /\ UNCHANGED <<pc, games, game_index, fetch_clock, display_clock, current_time,
                   display_root, resets, last, render_log>>

NextParse == CallParseGame

SpecParse == InitParse /\ [][NextParse]_vars

-----------------------------------------------------------------------------
(* One call of convert_date_format (lines 119-144) on every string of
   DateStrings and every offset of TzInfos *)

SliceYears == {NaN, 1, 2023, 2024, 9999}
SliceMonths == {NaN, 1, 2, 3, 6, 7, 12, 13}
SliceDays == {NaN, 0, 1, 15, 29, 30, 31}
SliceHours == {NaN} \cup 0..24
SliceMinutes == {NaN, 0, 5, 30, 60}
Separators == {IsoSeparators, <<"/", "/", " ", ".">>}

DateStrings ==
    { WithSeparators(DateStr(y, mo, d, h, mi), seps) :
        y \in SliceYears, mo \in SliceMonths, d \in SliceDays, h \in SliceHours,
        mi \in SliceMinutes, seps \in Separators }

TzInfos == {timezone_info, <<9, "JST">>}

InitDate ==
    /\ ProgramStart
    /\ \E date_str \in DateStrings, tz_info \in TzInfos :
         call = [fn |-> "convert_date_format", date_str |-> date_str,
                 tz_info |-> tz_info, state |-> "called", result |-> ""]

CallConvertDateFormat ==
    /\ call.fn = "convert_date_format"
    /\ call.state = "called"
    /\ call' = [call EXCEPT !.state = "returned",
                            !.result = convert_date_format(call.date_str, call.tz_info)]
    /\ UNCHANGED <<pc, games, game_index, fetch_clock, display_clock, current_time,
                   display_root, resets, last, render_log>>

NextDate == CallConvertDateFormat

SpecDate == InitDate /\ [][NextDate]_vars

-----------------------------------------------------------------------------
(* Properties *)

\* the difference now - deadline on the counter ring, taken in the half-open
\* range [-TICKS_HALFPERIOD, TICKS_HALFPERIOD)
ModularDifference(now, deadline) ==
    LET d == (now - deadline) % TICKS_PERIOD
    IN  IF d < TICKS_HALFPERIOD THEN d ELSE d - TICKS_PERIOD

\* C1: once a MemoryError has been raised inside fetch_all_games during a
\* refresh of the main loop (by a league's request or parse, or while
\* parse_game normalizes an event), the run has been ended by exactly one
\* microcontroller.reset() and nothing else follows.
C1_PipelineMemoryErrorResets ==
    ((InMainLoop \/ pc = "reset") /\ last.memory_error) => (pc = "reset" /\ resets = 1)

\* C2: after a main-loop refresh in which every league's request raised, the
\* loop holds the same list as before the refresh.
C2_FailedRefreshKeepsGames ==
    (InMainLoop /\ last.fetch = "failed") => games = last.old_games

\* C3: after a main-loop refresh that produced no games, and before the next
\* display firing, the rotation index is the index held before the refresh.
C3_FailedRefreshKeepsIndex ==
    (InMainLoop /\ last.fetch \in {"failed", "empty"} /\ last.display = "none")
        => game_index = last.old_index

\* C4: right after a main-loop refresh has installed a non-empty list, the
\* rotation index is 0.
C4_InstallResetsIndex ==
    (pc = "display" /\ last.fetch = "installed") => game_index = 0

\* C4 witness: a refresh taken in mid-rotation that fetched a list equal to
\* the one held has left the index at 0.
C4_Witness ==
    /\ pc = "display"
    /\ last.fetch = "installed"
    /\ last.old_index > 0
    /\ last.old_games = games
    /\ game_index = 0

\* C5: in every state of the main loop with a non-empty list,
\* 0 <= game_index < len(games).
C5_IndexInRange ==
    (InMainLoop /\ games # <<>>) => (game_index >= 0 /\ game_index < Len(games))

\* C5 witness: a refresh has replaced a list by a shorter one while the index
\* pointed past the end of the new list.
C5_Witness ==
    /\ pc = "display"
    /\ last.fetch = "installed"
    /\ Len(last.old_games) > Len(games)
    /\ last.old_index >= Len(games)

\* C6: with L = len(games) and r the index rendered last since the list was
\* installed: the screen shows games[r], the index has been advanced to
\* (r + 1) mod L after that, any L consecutive renderings cover every index
\* of the list once, and the (L+1)-th rendering is of the same index as the
\* first.
C6_RotationVisitsEveryIndex ==
    (InMainLoop /\ render_log # <<>>) =>
        LET L == Len(games)
            n == Len(render_log)
            r == render_log[n]
        IN  /\ display_root = Screen("game", Some(games[r + 1]))
            /\ game_index = (r + 1) % L
            /\ \A first \in 1..(n - L + 1) :
                 { render_log[i] : i \in first..(first + L - 1) } = 0..(L - 1)
            /\ n = L + 1 => render_log[n] = render_log[1]

\* C6 witness: L + 1 consecutive renderings of a list of L >= 2 games.
C6_Witness ==
    /\ pc = "loop"
    /\ Len(games) >= 2
    /\ Len(render_log) = Len(games) + 1
    /\ last.display = "rendered"

\* C7: a display firing on an empty list renders nothing and leaves the
\* rotation index unchanged.
C7_EmptyListFiringSelectsNothing ==
    [][(pc = "display" /\ games = <<>> /\ DisplayDue(current_time, display_clock))
         => /\ last'.display = "blank"
            /\ game_index' = game_index
            /\ display_root' = display_root
            /\ render_log' = render_log]_vars

\* C7 witness: the display timer has fired on an empty list.
C7_Witness ==
    /\ pc = "loop"
    /\ games = <<>>
    /\ last.display = "blank"
    /\ game_index = 0
    /\ display_root.kind # "game"

\* C8: for all pairs (deadline, now) of counter values the elapsed tests are
\* true exactly when the modular difference is at least the interval, and in
\* every iteration each timer fires exactly when the modular difference
\* between the reading and its mark is at least its interval.
C8_ElapsedTestIsModular ==
    /\ [](pc = "initial_fetch" =>
            \A deadline \in Ticks, now \in Ticks :
              /\ FetchDue(now, deadline)
                   <=> ModularDifference(now, deadline) >= fetch_interval_ms
              /\ DisplayDue(now, deadline)
                   <=> ModularDifference(now, deadline) >= display_interval_ms)
    /\ [][/\ pc = "loop" =>
               (last'.fetch # "none"
                  <=> ModularDifference(current_time', fetch_clock) >= fetch_interval_ms)
          /\ pc = "display" =>
               (last'.display # "none"
                  <=> ModularDifference(current_time, display_clock) >= display_interval_ms)
         ]_vars

\* C8 witness: the fetch timer has fired on a reading that had wrapped past
\* the overflow point while its mark had not.
C8_Witness ==
    /\ pc = "display"
    /\ last.fetch # "none"
    /\ current_time < (fetch_clock - fetch_interval_ms) % TICKS_PERIOD

\* C9 as claimed: on every scheduler step that no fault aborts, a timer that
\* is due fires, and its mark becomes its previous mark plus one interval.
C9_DueTimerFiresEveryStep ==
    [][/\ (pc = "loop" /\ FetchDue(current_time', fetch_clock))
            => fetch_clock' = ticks_add(fetch_clock, fetch_interval_ms)
       /\ (/\ pc \in {"loop", "display"}
           /\ pc' = "loop"
           /\ last'.display \notin {"error", "memory_error"}
           /\ DisplayDue(current_time', display_clock))
            => display_clock' = ticks_add(display_clock, display_interval_ms)
      ]_vars

\* C9 as amended: a firing moves the mark by exactly one interval from the
\* previous mark, so the timer's lag behind the reading shrinks by exactly
\* one interval; the fetch timer fires on every step on which it is due, the
\* display timer on every step that reaches its test while it is due and in
\* which build_game_display does not raise.
C9_FiringAdvancesByOneInterval ==
    [][/\ (pc = "loop" /\ FetchDue(current_time', fetch_clock))
            => /\ fetch_clock' = ticks_add(fetch_clock, fetch_interval_ms)
               /\ ModularDifference(current_time', fetch_clock')
                    = ModularDifference(current_time', fetch_clock) - fetch_interval_ms
       /\ (/\ pc = "display"
           /\ pc' = "loop"
           /\ last'.display # "error"
           /\ DisplayDue(current_time, display_clock))
            => /\ display_clock' = ticks_add(display_clock, display_interval_ms)
               /\ ModularDifference(current_time', display_clock')
                    = ModularDifference(current_time, display_clock) - display_interval_ms
      ]_vars

\* C9 witness: both timers have fired in one iteration and both are still due
\* (a catch-up firing follows).
C9_Witness ==
    /\ pc = "loop"
    /\ last.fetch # "none"
    /\ last.display \in {"rendered", "blank"}
    /\ FetchDue(current_time, fetch_clock)
    /\ DisplayDue(current_time, display_clock)

\* C10 as claimed: the fetch branch leaves the display mark unchanged, the
\* display branch leaves the fetch mark unchanged, and a fetch firing, empty
\* or not, is followed in the same iteration by the display test when the
\* display timer is due.
C10_FetchNeverDelaysDisplay ==
    [][/\ pc = "loop" => display_clock' = display_clock
       /\ (pc = "display" /\ pc' = "loop") => fetch_clock' = fetch_clock
       /\ (pc = "loop" /\ last'.fetch # "none" /\ DisplayDue(current_time', display_clock))
            => pc' = "display"
      ]_vars

\* C10 as amended: the fetch branch leaves the display mark unchanged and the
\* display branch leaves the fetch mark unchanged; a fetch firing that
\* installs a non-empty list is followed in the same iteration by the display
\* test, and one that fetches no game ends the iteration, the display timer
\* staying due.
C10_TimersIndependent ==
    [][/\ pc = "loop" => display_clock' = display_clock
       /\ (pc = "display" /\ pc' = "loop") => fetch_clock' = fetch_clock
       /\ (pc = "loop" /\ last'.fetch = "installed") => pc' = "display"
       /\ (pc = "loop" /\ last'.fetch \in {"failed", "empty"})
            => /\ pc' = "loop"
               /\ DisplayDue(current_time', display_clock')
                    <=> DisplayDue(current_time', display_clock)
      ]_vars

\* C10 witness: the fetch timer has fired and installed a list while the
\* display timer is due, and the display test comes next.
C10_Witness ==
    /\ pc = "display"
    /\ last.fetch = "installed"
    /\ DisplayDue(current_time, display_clock)
    /\ display_clock # current_time

-----------------------------------------------------------------------------
(* Properties of one call of fetch_all_games *)

\* the call of fetch_all_games has returned its list
FetchReturned == call.fn = "fetch_all_games" /\ call.state = "returned"

\* an event that has every field parse_game requires and exactly two
\* competitors, and whose normalization does not run out of memory
IsValidEvent(event) ==
    /\ ~event.alloc_fails
    /\ event.competitors # None
    /\ Len(event.competitors[1]) = 2
    /\ \A i \in 1..2 : event.competitors[1][i].abbreviation # None
    /\ event.status # None

\* the league of the feed at Python index league_idx failed
LeagueFailed(feed, league_idx) == feed[league_idx + 1].outcome # "ok"

\* the games of the valid events of one league, in feed order
ValidGames(feed, league_idx) ==
    IF LeagueFailed(feed, league_idx) THEN <<>>
    ELSE LET valid == SelectSeq(feed[league_idx + 1].events, IsValidEvent)
         IN  [k \in 1..Len(valid) |-> parse_game(valid[k], league_idx)[1]]

\* the games of the valid events of the leagues 0 .. n - 1, in league order
RECURSIVE ValidGamesUpTo(_, _)
ValidGamesUpTo(feed, n) ==
    IF n = 0 THEN <<>>
    ELSE ValidGamesUpTo(feed, n - 1) \o ValidGames(feed, n - 1)

\* the leagues requested by the call, in the order of the requests
Requested(log) ==
    LET gets == SelectSeq(log, LAMBDA entry : entry[1] = "get")
    IN  [k \in 1..Len(gets) |-> gets[k][2]]

\* C11: whatever subset of the leagues fails in a call of fetch_all_games,
\* the returned list is exactly the games of the valid events of the other
\* leagues in league order (a failing league contributes none), and every
\* league, those after a failing one included, has been requested once in
\* the configured order.
C11_FailingLeaguesContributeNothing ==
    FetchReturned =>
        /\ call.all_games = ValidGamesUpTo(call.feed, Len(SPORT_URLS))
        /\ \A i \in 0..(Len(SPORT_URLS) - 1) :
             LeagueFailed(call.feed, i) =>
                ~\E k \in 1..Len(call.all_games) : call.all_games[k].league_idx = i
        /\ Requested(call.log) = sport_leagues

\* C11 witness: the call has returned the games of the first and the last
\* league after the two leagues between them failed in different ways.
C11_Witness ==
    /\ FetchReturned
    /\ call.feed[1].outcome = "ok"
    /\ call.feed[2].outcome = "request_error"
    /\ call.feed[3].outcome = "parse_error"
    /\ call.feed[4].outcome = "ok"
    /\ Len(call.all_games) = 2
    /\ call.all_games[1].league_idx = 0
    /\ call.all_games[2].league_idx = 3

\* C12: in a call of fetch_all_games, for every league whose request and
\* parse succeed, the games of that league in the returned list are exactly
\* the games of its valid events, in feed order (N valid events give N games,
\* wherever the rejected events stand), and they follow the games collected
\* from the earlier leagues, which are all kept.
C12_RejectedEventSkippedAlone ==
    FetchReturned =>
        \A i \in 0..(Len(SPORT_URLS) - 1) :
            ~LeagueFailed(call.feed, i) =>
                LET mine    == SelectSeq(call.all_games, LAMBDA g : g.league_idx = i)
                    valid   == SelectSeq(call.feed[i + 1].events, IsValidEvent)
                    earlier == ValidGamesUpTo(call.feed, i)
                IN  /\ Len(mine) = Len(valid)
                    /\ \A k \in 1..Len(valid) : mine[k] = parse_game(valid[k], i)[1]
                    /\ Len(call.all_games) >= Len(earlier) + Len(mine)
                    /\ SubSeq(call.all_games, 1, Len(earlier)) = earlier
                    /\ SubSeq(call.all_games, Len(earlier) + 1, Len(earlier) + Len(mine)) = mine

\* C12 witness: the second league's feed held a valid event between two
\* rejected ones (no competitors, three competitors); the call has returned
\* the first league's game, then that event's game, then the last league's.
C12_Witness ==
    /\ FetchReturned
    /\ call.feed[2] = Response("ok", <<NoCompetitorsEvent, ScheduledEvent, ThreeCompetitorsEvent>>)
    /\ Len(call.all_games) = 3
    /\ call.all_games[1].league_idx = 0
    /\ call.all_games[2].league_idx = 1
    /\ call.all_games[2].is_scheduled
    /\ call.all_games[3].league_idx = 3

\* C13: a call of fetch_all_games, whatever requests, parses and events
\* fail in it, can always run to its end, no exception leaves it, and what
\* it returns is a (possibly empty) list of games of the configured leagues.
C13_NoFailureEscapes ==
    call.fn = "fetch_all_games" =>
        /\ call.state \in {"called", "returned"}
        /\ call.raised = None
        /\ call.state = "called" => ENABLED CallFetchAllGames
        /\ call.state = "returned" =>
              /\ DOMAIN call.all_games = 1..Len(call.all_games)
              /\ \A k \in 1..Len(call.all_games) :
                   /\ call.all_games[k].league_idx \in 0..(Len(SPORT_URLS) - 1)
                   /\ call.all_games[k].league = upper(sport_leagues[call.all_games[k].league_idx + 1])

\* C13 witness: the call has returned one game after a MemoryError, a parse
\* failure and a request failure of the first three leagues and a rejected
\* event of the fourth.
C13_Witness ==
    /\ FetchReturned
    /\ call.feed[1].outcome = "memory_error"
    /\ call.feed[2].outcome = "parse_error"
    /\ call.feed[3].outcome = "request_error"
    /\ call.feed[4] = Response("ok", <<NoStatusEvent, ScheduledEvent>>)
    /\ Len(call.all_games) = 1

-----------------------------------------------------------------------------
(* Properties of the main program, continued *)

\* C14: in an iteration in which the fetch timer fires and the refresh
\* yields a non-empty list, the list is installed before the display test
\* and nothing is rendered meanwhile; if the display timer is due too, the
\* game rendered in that iteration is element 0 of the installed list.
C14_RefreshAppliedBeforeRotation ==
    [][/\ (pc = "loop" /\ last'.fetch = "installed")
            => /\ pc' = "display"
               /\ games' # <<>>
               /\ \E run \in LoopRuns : games' = run.all_games
               /\ display_root' = display_root
       /\ (pc = "display" /\ last.fetch = "installed" /\ last'.display = "rendered")
            => /\ games' = games
               /\ display_root' = Screen("game", Some(games[1]))
      ]_vars

\* C14 witness: both timers fired in one iteration; the refresh replaced a
\* list in mid-rotation, and the game on the screen is element 0 of the new
\* list, which is no element of the superseded one.
C14_Witness ==
    /\ pc = "loop"
    /\ last.fetch = "installed"
    /\ last.display = "rendered"
    /\ last.old_index > 0
    /\ display_root = Screen("game", Some(games[1]))
    /\ \A k \in 1..Len(last.old_games) : last.old_games[k] # games[1]

\* C15: while the program holds an empty list after a refresh that produced
\* no game (the initial fetch, its retry, or a refresh of the main loop), the
\* screen shows the no-games message and microcontroller.reset() has not been
\* called; after an empty initial fetch the retry follows, and the main loop
\* never goes on for ever with an empty list and no further firing of the
\* fetch timer (last.fetch is "none" from the first iteration in which the
\* timer does not fire until the next one in which it does).
C15_EmptyResultRetriedWithoutReset ==
    /\ []((games = <<>> /\ pc \in {"retry_fetch", "init_timers", "loop", "display"})
            => (display_root = Screen("no_games", None) /\ resets = 0))
    /\ (pc = "retry_fetch") ~> (pc = "init_timers" /\ resets = 0)
    /\ []<>(~(InMainLoop /\ games = <<>>) \/ last.fetch # "none")

\* C15 witness: a refresh of the main loop found no game while a list was
\* held; the no-games message is shown and the loop goes on.
C15_Witness ==
    /\ pc = "loop"
    /\ last.fetch \in {"failed", "empty"}
    /\ last.old_games # <<>>
    /\ games = <<>>
    /\ display_root = Screen("no_games", None)
    /\ resets = 0

-----------------------------------------------------------------------------
(* Properties of one call of parse_game *)

\* the call of parse_game has returned
ParseReturned == call.fn = "parse_game" /\ call.state = "returned"

\* the local date and time texts of the dates of EventDates, offset -5
LocalDateText(date) ==
    CASE date = Some(DateStr(2024, 1, 15, 0, 30)) -> "1/14 7:30PM"
      [] date = Some(DateStr(2024, 6, 1, 17, 0)) -> "6/1 12:00PM"
      [] OTHER -> "TBD"

\* C17: for an event whose status type has a code, parse_game returns a
\* game whose status text is "FINAL" for STATUS_FINAL whatever the detail,
\* the short detail unchanged for STATUS_IN_PROGRESS, the converted local
\* date and time for STATUS_SCHEDULED, "POSTPONED" and "CANCELED" for
\* STATUS_POSTPONED and STATUS_CANCELED, and for any other code the detail
\* if there is one (a non-empty string) and "SCHEDULED" otherwise.
C17_StatusTextByCode ==
    (ParseReturned /\ call.event.status[1].name # None) =>
        LET code   == call.event.status[1].name[1]
            detail == call.event.status[1].shortDetail
            text   == IF detail = None THEN "" ELSE detail[1]
        IN  /\ call.result # None
            /\ code = "STATUS_FINAL" => call.result[1].status = "FINAL"
            /\ code = "STATUS_IN_PROGRESS" => call.result[1].status = text
            /\ code = "STATUS_SCHEDULED" =>
                  call.result[1].status = LocalDateText(call.event.date)
            /\ code = "STATUS_POSTPONED" => call.result[1].status = "POSTPONED"
            /\ code = "STATUS_CANCELED" => call.result[1].status = "CANCELED"
            /\ code \notin {"STATUS_FINAL", "STATUS_IN_PROGRESS", "STATUS_SCHEDULED",
                             "STATUS_POSTPONED", "STATUS_CANCELED"} =>
                  call.result[1].status = (IF text # "" THEN text ELSE "SCHEDULED")

\* C17 witness: an event with the code STATUS_FINAL and the detail
\* "Final/OT" has been given the status text "FINAL".
C17_Witness ==
    /\ ParseReturned
    /\ call.event.status[1] = StatusType(Some("STATUS_FINAL"), Some("Final/OT"))
    /\ call.result # None
    /\ call.result[1].status = "FINAL"
    /\ call.result[1].is_final

-----------------------------------------------------------------------------
(* Properties of one call of convert_date_format *)

\* the call of convert_date_format has returned
DateReturned == call.fn = "convert_date_format" /\ call.state = "returned"

\* the days of a year before the first day of month m (m = 13: the whole year)
DaysBeforeMonth(y, m) ==
    <<0, 31, 59, 90, 120, 151, 181, 212, 243, 273, 304, 334, 365>>[m]
    + (IF m > 2 /\ ((y % 4 = 0 /\ y % 100 # 0) \/ y % 400 = 0) THEN 1 ELSE 0)

\* (y, m, d, h, mi) is a date and time of the calendar
OnCalendar(y, m, d, h, mi) ==
    /\ y \in 1..9999 /\ m \in 1..12 /\ h \in 0..23 /\ mi \in 0..59
    /\ d >= 1 /\ d <= DaysBeforeMonth(y, m + 1) - DaysBeforeMonth(y, m)

\* the whole hours from 0001-01-01T00:00 to the hour h of the date given
HoursSinceEpoch(y, m, d, h) ==
    LET days == 365 * (y - 1) + (y - 1) \div 4 - (y - 1) \div 100 + (y - 1) \div 400
                + DaysBeforeMonth(y, m) + (d - 1)
    IN  days * 24 + h

\* the text M/D H:MMAM|PM of a local date and time
LocalText(m, d, h, mi) ==
    ToString(m) \o "/" \o ToString(d) \o " "
    \o ToString(IF h % 12 = 0 THEN 12 ELSE h % 12) \o ":"
    \o (IF mi < 10 THEN "0" ELSE "") \o ToString(mi)
    \o (IF h \in 0..11 THEN "AM" ELSE "PM")

\* the five slices of the string are numbers that form a date and time
SlicesFormDate(date_str) ==
    /\ NaN \notin {date_str.year, date_str.month, date_str.day, date_str.hour,
                    date_str.minute}
    /\ OnCalendar(date_str.year, date_str.month, date_str.day, date_str.hour,
                  date_str.minute)

\* the texts of the local dates and times that are offset hours after the
\* UTC date and time of the slices: the dates of the calendar near it whose
\* distance from the epoch is that of the UTC time plus offset hours, with
\* the same minute
LocalTexts(date_str, offset) ==
    LET target == HoursSinceEpoch(date_str.year, date_str.month, date_str.day,
                                  date_str.hour) + offset
    IN  { LocalText(m, d, h, date_str.minute) :
            <<y, m, d, h>> \in
              { c \in {date_str.year - 1, date_str.year, date_str.year + 1}
                       \X {date_str.month, 1, 12,
                           IF date_str.month = 12 THEN 1 ELSE date_str.month + 1,
                           IF date_str.month = 1 THEN 12 ELSE date_str.month - 1}
                       \X {date_str.day - 1, date_str.day, date_str.day + 1,
                           1, 28, 29, 30, 31}
                       \X {(date_str.hour + offset) % 24} :
                   /\ OnCalendar(c[1], c[2], c[3], c[4], date_str.minute)
                   /\ HoursSinceEpoch(c[1], c[2], c[3], c[4]) = target } }

\* what convert_date_format returns by the fixed-position slices alone
ConvertsBySlices ==
    DateReturned =>
        /\ IF SlicesFormDate(call.date_str)
              /\ LocalTexts(call.date_str, call.tz_info[1]) # {}
           THEN LocalTexts(call.date_str, call.tz_info[1]) = {call.result}
           ELSE call.result = "TBD"
        /\ (call.date_str = DateStr(2024, 1, 15, 0, 30) /\ call.tz_info[1] = -5)
              => call.result = "1/14 7:30PM"
        /\ (call.date_str = DateStr(2024, 6, 1, 17, 0) /\ call.tz_info[1] = -5)
              => call.result = "6/1 12:00PM"

\* C18 as claimed: convert_date_format returns the text M/D H:MMAM|PM of the
\* local date and time (the UTC time of the string plus the offset, on the
\* day before or after when midnight is crossed; 12 for the hours 0 and 12,
\* AM for the hours 0..11, minutes on two digits), the two examples give
\* "1/14 7:30PM" and "6/1 12:00PM", and every string that is not of the form
\* YYYY-MM-DDTHH:MM with a date and time of the calendar gives "TBD".
C18_MalformedStringGivesTBD ==
    /\ ConvertsBySlices
    /\ (DateReturned /\ call.date_str.seps # IsoSeparators) => call.result = "TBD"

\* C18 as amended: the same, except that "TBD" is returned exactly when one
\* of the five slices at the fixed positions is not a number, when the five
\* numbers are not a date and time of the calendar, or when the local date
\* leaves the years 1..9999; the characters between the slices are not read,
\* so a string with other separators is converted like the ISO string with
\* the same digits.
C18_ConvertsFixedSlices ==
    /\ ConvertsBySlices
    /\ DateReturned =>
          call.result = convert_date_format(WithSeparators(call.date_str, IsoSeparators),
                                            call.tz_info)

\* C18 witness: "2024-01-15T00:30" with offset -5 has given "1/14 7:30PM", on
\* the day before.
C18_Witness ==
    /\ DateReturned
    /\ call.date_str = DateStr(2024, 1, 15, 0, 30)
    /\ call.tz_info = timezone_info
    /\ call.result = "1/14 7:30PM"

-----------------------------------------------------------------------------
(* Properties of the held list and of the memory reclaimed by a fetch *)

\* C19: every game of the list held by the main program has all ten fields,
\* and its home_team and away_team are non-empty.
C19_HeldGamesFullyPopulated ==
    \A k \in 1..Len(games) :
        /\ DOMAIN games[k] = {"league", "league_idx", "home_team", "away_team",
                              "home_score", "away_score", "status", "is_final",
                              "is_live", "is_scheduled"}
        /\ games[k].home_team # ""
        /\ games[k].away_team # ""

\* C20: in the log of a call of fetch_all_games that has returned, the
\* request of every league, failed or not, is followed by gc.collect()
\* before the next league's request (for the last league, before the return).
C20_MemoryReclaimedAfterEveryLeague ==
    FetchReturned =>
        \A k \in 1..Len(call.log) :
            call.log[k][1] = "get" =>
                \E g \in (k + 1)..Len(call.log) :
                    /\ call.log[g] = <<"gc", call.log[k][2]>>
                    /\ \A j \in (k + 1)..g : call.log[j][1] # "get"

====
